---- MODULE Spec2Model ----
\* BugBite task & reward engine (src/src/state/store.ts): the zustand store
\* holding one-off todos, recurrent habits, coins, infestation, monthly
\* statistics, the recently-deleted buffer and the single-slot undo log.
\*
\* Every store operation is a reducer `set((state) => ...)`: a pure function
\* of the current document, its arguments and the wall clock.  Each reducer is
\* an operator of the same name over a document record; the action of the
\* same (capitalised) name applies it to the variables.
\*
\* Modelling conventions
\*   - an ISO timestamp "YYYY-MM-DDTHH:MM:SS.sssZ" is [date |-> <<y, m, d>>,
\*     ms |-> milliseconds since midnight]; a date-only string "YYYY-MM-DD" is
\*     <<y, m, d>>; a JavaScript Date built by parseDateOnly is its day number;
\*   - the device's time zone is UTC, so local getters agree with the ISO text;
\*   - null is the empty tuple <<>>, a present optional value x is <<x>> for
\*     records, and the string "null" for the enumerated fields;
\*   - a title is a sequence of characters; the template literal of addTodo
\*     appends the characters and numbers of " (i/N)";
\*   - note and checklist are optional fields that no operation modelled here
\*     reads; they are carried verbatim by the spreads and left out.
EXTENDS Integers, Sequences, FiniteSets, TLC

VARIABLES todos, recurrent, coins, infestation, monthlyStats,
          recentlyDeleted, lastAction, monthlyProgress, timers, clock,
          nextId, steps

vars == <<todos, recurrent, coins, infestation, monthlyStats,
          recentlyDeleted, lastAction, monthlyProgress, timers, clock,
          nextId, steps>>

\* ---------------------------------------------------------------- bounds

\* Ids generateId hands out in one run (todos and habits together).
MaxIds == 2
\* Operations that change the document, and midnights, in one run.
MaxSteps == 4

\* Smash and fail events in one run of StatsSpec.
MaxEvents == 201
\* Coins a run of ShopSpec starts with, at most.
MaxCoins == 20
MaxTicks == 4

\* ------------------------------------------------------------- constants

Null == <<>>

Difficulties == {"easy", "medium", "hard", "boss"}
IntervalTypes == {"daily", "weekly", "monthly"}

\* (mutant) the rewards of medium and hard are swapped
COIN_REWARDS_HardSwapped(difficulty) ==
    CASE difficulty = "easy" -> 1
      [] difficulty = "medium" -> 3
      [] difficulty = "hard" -> 2
      [] difficulty = "boss" -> 5

COIN_REWARDS(difficulty) ==
    CASE difficulty = "easy" -> 1
      [] difficulty = "medium" -> 2
      [] difficulty = "hard" -> 3
      [] difficulty = "boss" -> 5

\* (mutant) the fail weights are read from the reward table
FAIL_WEIGHTS_AsRewards(difficulty) == COIN_REWARDS(difficulty)

FAIL_WEIGHTS(difficulty) ==
    CASE difficulty = "easy" -> 1
      [] difficulty = "medium" -> 1
      [] difficulty = "hard" -> 2
      [] difficulty = "boss" -> 3

MAX_INFESTATION == 10
ITEM_LIMIT == 200
\* (mutant) the number of tasks of one addTodo is capped one too high
MAX_COUNT_OneMore == 10 + 1
MAX_COUNT == 10

\* ------------------------------------------------------------ input sets

StartDate == <<2024, 1, 31>>
Ids == 1..MaxIds
DifficultyInputs == {"hard", "boss"}
IntervalInputs == {"daily", "monthly"}
\* (mutant) the number typed is capped but has no floor
safeTimes_NoFloor(timesPerDay) ==
    IF timesPerDay > 10 THEN 10 ELSE timesPerDay

\* safeTimes of the habit form: Math.min(10, Math.max(1, timesPerDay))
safeTimes(timesPerDay) ==
    IF timesPerDay > 10 THEN 10 ELSE IF timesPerDay < 1 THEN 1 ELSE timesPerDay

\* the numbers typed into the habit form, and what the form passes on
TimesTyped == {0, 1, 2}
TimesPerDayInputs == {safeTimes(timesPerDay) : timesPerDay \in TimesTyped}
TitleInputs == {<<"a">>}
CountInputs == {1, 2}

\* ------------------------------------------------------------ calendar

Years == 2023..2026

IsLeap(y) == (y % 4 = 0 /\ y % 100 # 0) \/ y % 400 = 0

DaysInMonth(y, m) ==
    IF m = 2 THEN (IF IsLeap(y) THEN 29 ELSE 28)
    ELSE IF m \in {4, 6, 9, 11} THEN 30 ELSE 31

\* leap years among the years 1..y
LeapYearsUpTo(y) == (y \div 4) - (y \div 100) + (y \div 400)

\* days from 1 January 2023 to 1 January of year y
DaysBeforeYear(y) ==
    (y - 2023) * 365 + LeapYearsUpTo(y - 1) - LeapYearsUpTo(2022)

\* days from 1 January to the first of month m in a common year
CumulativeDays == <<0, 31, 59, 90, 120, 151, 181, 212, 243, 273, 304, 334>>

DaysBeforeMonth(y, m) ==
    CumulativeDays[m] + (IF m > 2 /\ IsLeap(y) THEN 1 ELSE 0)

\* new Date(year, monthIndex, day): a month past December rolls into the next
\* year and a day past the month's end rolls into the following month.
NewDate(y, m, d) ==
    LET yy == y + ((m - 1) \div 12)
        mm == ((m - 1) % 12) + 1
    IN  DaysBeforeYear(yy) + DaysBeforeMonth(yy, mm) + d

getFullYear(t) ==
    CHOOSE y \in Years : DaysBeforeYear(y) < t /\ t <= DaysBeforeYear(y + 1)

getMonth(t) ==
    LET y == getFullYear(t)
        r == t - DaysBeforeYear(y)
    IN  CHOOSE m \in 1..12 :
            DaysBeforeMonth(y, m) < r /\ r <= DaysBeforeMonth(y, m) + DaysInMonth(y, m)

getDate(t) ==
    LET y == getFullYear(t)
    IN  t - DaysBeforeYear(y) - DaysBeforeMonth(y, getMonth(t))

\* (mutant) the slice keeps the time of day
toDateOnly_KeepsTime(dateISO) == dateISO.date \o <<dateISO.ms>>

\* dateISO.slice(0, 10)
toDateOnly(dateISO) == dateISO.date

parseDateOnly(dateOnly) == NewDate(dateOnly[1], dateOnly[2], dateOnly[3])

formatDateOnly(t) == <<getFullYear(t), getMonth(t), getDate(t)>>

\* (mutant) a weekly habit is advanced like a daily one
addIntervalDays_WeeklyAsDaily(dateOnly, intervalType) ==
    LET date == parseDateOnly(dateOnly)
    IN  IF intervalType = "monthly"
        THEN formatDateOnly(NewDate(getFullYear(date), getMonth(date) + 1, getDate(date)))
        ELSE formatDateOnly(NewDate(getFullYear(date), getMonth(date), getDate(date) + 1))

addIntervalDays(dateOnly, intervalType) ==
    LET date == parseDateOnly(dateOnly)
    IN  IF intervalType = "weekly"
        THEN formatDateOnly(NewDate(getFullYear(date), getMonth(date), getDate(date) + 7))
        ELSE IF intervalType = "monthly"
        THEN formatDateOnly(NewDate(getFullYear(date), getMonth(date) + 1, getDate(date)))
        ELSE formatDateOnly(NewDate(getFullYear(date), getMonth(date), getDate(date) + 1))

\* (mutant) a habit is due only after its due date
isDue_Strict(dateOnly, nextDueDateOnly) ==
    parseDateOnly(dateOnly) > parseDateOnly(nextDueDateOnly)

isDue(dateOnly, nextDueDateOnly) ==
    parseDateOnly(dateOnly) >= parseDateOnly(nextDueDateOnly)

getMonthKey(dateISO) ==
    LET t == parseDateOnly(dateISO.date)
    IN  <<getFullYear(t), getMonth(t)>>

\* ------------------------------------------------------- monthly statistics

EmptyStats == [smashedCount |-> 0, missedCount |-> 0,
               smashedItems |-> <<>>, missedItems |-> <<>>]

\* (mutant) the month's entry is always started afresh
ensureMonthlyStats_Fresh(stats, monthKey) == EmptyStats

ensureMonthlyStats(stats, monthKey) ==
    IF monthKey \in DOMAIN stats THEN stats[monthKey] ELSE EmptyStats

Max(a, b) == IF a >= b THEN a ELSE b
Min(a, b) == IF a <= b THEN a ELSE b

\* (mutant) the list is never cut
pushMonthlyItem_NoSlice(items, item) == <<item>> \o items

\* [item, ...items].slice(0, 200)
pushMonthlyItem(items, item) ==
    LET all == <<item>> \o items
    IN  SubSeq(all, 1, Min(Len(all), ITEM_LIMIT))

\* update = [smashedDelta, missedDelta, smashedItem, missedItem]; an absent
\* delta is 0 and an absent item is Null.
updateMonthlyStats(stats, monthKey, update) ==
    LET current == ensureMonthlyStats(stats, monthKey)
        entry == [smashedCount |-> Max(0, current.smashedCount + update.smashedDelta),
                  missedCount |-> Max(0, current.missedCount + update.missedDelta),
                  smashedItems |-> IF update.smashedItem # Null
                                   THEN pushMonthlyItem(current.smashedItems, update.smashedItem[1])
                                   ELSE current.smashedItems,
                  missedItems |-> IF update.missedItem # Null
                                  THEN pushMonthlyItem(current.missedItems, update.missedItem[1])
                                  ELSE current.missedItems]
    IN  [k \in (DOMAIN stats) \cup {monthKey} |->
            IF k = monthKey THEN entry ELSE stats[k]]

MonthlyItem(entity, nowISO, type) ==
    [id |-> entity.id, title |-> entity.title, dateISO |-> nowISO,
     difficulty |-> entity.difficulty, type |-> type]

\* ------------------------------------------------------------- the document

Doc == [todos |-> todos, recurrent |-> recurrent, coins |-> coins,
        infestation |-> infestation, monthlyStats |-> monthlyStats,
        recentlyDeleted |-> recentlyDeleted, lastAction |-> lastAction]

\* the store's initial state
InitialDoc == [todos |-> <<>>, recurrent |-> <<>>, coins |-> 0,
               infestation |-> 0, monthlyStats |-> <<>>,
               recentlyDeleted |-> Null, lastAction |-> Null]

\* array.map(f)
MapSeq(seq, f(_)) == [i \in 1..Len(seq) |-> f(seq[i])]

\* (mutant) nothing is filtered out
WithoutId_KeepsAll(seq, id) == seq

\* array.filter(item => item.id !== id)
WithoutId(seq, id) ==
    LET keep(e) == e.id # id IN SelectSeq(seq, keep)

HasId(seq, id) == \E i \in 1..Len(seq) : seq[i].id = id

\* array.find(item => item.id === id): the first match
FindById(seq, id) ==
    seq[CHOOSE i \in 1..Len(seq) :
            seq[i].id = id /\ \A j \in 1..(i - 1) : seq[j].id # id]

\* the entity the last matching callback of a map saw
LastById(seq, id) ==
    seq[CHOOSE i \in 1..Len(seq) :
            seq[i].id = id /\ \A j \in (i + 1)..Len(seq) : seq[j].id # id]

\* string.trim() on a sequence of characters
RECURSIVE TrimStart(_)
TrimStart(s) == IF s # <<>> /\ Head(s) = " " THEN TrimStart(Tail(s)) ELSE s

RECURSIVE TrimEnd(_)
TrimEnd(s) ==
    IF s # <<>> /\ s[Len(s)] = " " THEN TrimEnd(SubSeq(s, 1, Len(s) - 1)) ELSE s

Trim(s) == TrimEnd(TrimStart(s))

\* ------------------------------------------------------------ the reducers

\* ids are the fresh ids generateId returns, one per created todo
addTodo(s, title, difficulty, count0, ids, nowISO) ==
    LET count == Min(MAX_COUNT, Max(1, count0))
        trimmedTitle == Trim(title)
        newTodos == [index \in 1..count |->
            [id |-> ids[index],
             title |-> IF count > 1
                       THEN trimmedTitle \o <<" ", "(", ToString(index), "/", ToString(count), ")">>
                       ELSE trimmedTitle,
             difficulty |-> difficulty,
             status |-> "locked",
             lastOutcome |-> "null"]]
    IN  [s EXCEPT !.todos = newTodos \o s.todos]

updateTodo(s, id, updates) ==
    LET upd(todo) == IF todo.id = id
                     THEN [todo EXCEPT !.title = updates.title,
                                       !.difficulty = updates.difficulty]
                     ELSE todo
    IN  [s EXCEPT !.todos = MapSeq(s.todos, upd)]

deleteTodo(s, id, nowISO) ==
    IF ~HasId(s.todos, id) THEN s
    ELSE [s EXCEPT !.todos = WithoutId(s.todos, id),
                   !.recentlyDeleted = <<[type |-> "todo",
                                          item |-> FindById(s.todos, id),
                                          deletedAtISO |-> nowISO]>>]

addRecurrent(s, title, difficulty, intervalType, timesPerDay, id, nowISO) ==
    LET todayISO == toDateOnly(nowISO)
        newRecurrent == [id |-> id,
                         title |-> title,
                         difficulty |-> difficulty,
                         intervalType |-> intervalType,
                         timesPerDay |-> timesPerDay,
                         remainingToday |-> 0,
                         lastSpawnDateISO |-> Null,
                         nextDueDateISO |-> todayISO,
                         activeBugState |-> "null",
                         lastOutcome |-> "null"]
    IN  [s EXCEPT !.recurrent = <<newRecurrent>> \o s.recurrent]

spawnDueRecurrentBugs(s, dateISO) ==
    LET todayISO == toDateOnly(dateISO)
        due(item) == IF item.nextDueDateISO = Null THEN todayISO
                     ELSE item.nextDueDateISO
        spawn(item) ==
            IF isDue(todayISO, due(item)) /\ item.lastSpawnDateISO # todayISO
            THEN [item EXCEPT !.remainingToday = item.timesPerDay,
                              !.lastSpawnDateISO = todayISO,
                              !.nextDueDateISO = due(item),
                              !.activeBugState = "locked",
                              !.lastOutcome = "null"]
            ELSE item
    IN  [s EXCEPT !.recurrent = MapSeq(s.recurrent, spawn)]

\* (mutant) the test reads remainingToday before the decrement
stateAfterComplete_BeforeDecrement(item) ==
    IF item.remainingToday = 0 THEN "unlocked" ELSE item.activeBugState

\* (mutant) any completion unlocks the bug
stateAfterComplete_Unlocked(item) == "unlocked"

\* remainingToday - 1 === 0 ? "unlocked" : item.activeBugState
stateAfterComplete(item) ==
    IF item.remainingToday - 1 = 0 THEN "unlocked" ELSE item.activeBugState

completeRecurrent(s, id) ==
    LET step(item) ==
            IF item.id # id \/ item.remainingToday <= 0 THEN item
            ELSE [item EXCEPT !.remainingToday = item.remainingToday - 1,
                              !.lastOutcome = "plus",
                              !.activeBugState = stateAfterComplete(item)]
    IN  [s EXCEPT !.recurrent = MapSeq(s.recurrent, step)]

failRecurrent(s, id, nowISO) ==
    LET monthKey == getMonthKey(nowISO)
        found == HasId(s.recurrent, id)
        mark(item) == IF item.id # id THEN item
                      ELSE [item EXCEPT !.lastOutcome = "minus"]
    IN  [s EXCEPT
            !.recurrent = MapSeq(s.recurrent, mark),
            !.monthlyStats =
                IF found
                THEN updateMonthlyStats(s.monthlyStats, monthKey,
                        [missedDelta |-> 1, smashedDelta |-> -1,
                         smashedItem |-> Null,
                         missedItem |-> <<MonthlyItem(LastById(s.recurrent, id), nowISO, "recurrent")>>])
                ELSE s.monthlyStats,
            !.lastAction =
                IF found
                THEN <<[type |-> "recurrent", itemId |-> id,
                        prevRecurrent |-> LastById(s.recurrent, id),
                        prevCoins |-> s.coins,
                        prevInfestation |-> s.infestation,
                        prevMonthlyStats |-> s.monthlyStats,
                        actionAtISO |-> nowISO]>>
                ELSE s.lastAction]

\* (mutant) only a smashed task is refused
canUnlock_NotSmashed(target) == target.status # "smashed"

\* !target || target.status !== "locked": return state
canUnlock(target) == target.status = "locked"

unlockTodo(s, id, nowISO) ==
    IF ~HasId(s.todos, id) \/ ~canUnlock(FindById(s.todos, id)) THEN s
    ELSE LET unlock(todo) == IF todo.id = id
                             THEN [todo EXCEPT !.status = "unlocked",
                                               !.lastOutcome = "plus"]
                             ELSE todo
         IN  [s EXCEPT
                !.todos = MapSeq(s.todos, unlock),
                !.lastAction = <<[type |-> "todo", itemId |-> id,
                                  prevTodo |-> FindById(s.todos, id),
                                  prevCoins |-> s.coins,
                                  prevInfestation |-> s.infestation,
                                  prevMonthlyStats |-> s.monthlyStats,
                                  actionAtISO |-> nowISO]>>]

smashTodo(s, id, nowISO) ==
    LET monthKey == getMonthKey(nowISO)
        found == HasId(s.todos, id)
        coinsEarned == IF found THEN COIN_REWARDS(LastById(s.todos, id).difficulty)
                       ELSE 0
        smash(todo) == IF todo.id # id THEN todo
                       ELSE [todo EXCEPT !.status = "smashed",
                                         !.lastOutcome = "null"]
    IN  [s EXCEPT
            !.todos = MapSeq(s.todos, smash),
            !.coins = s.coins + coinsEarned,
            !.monthlyStats =
                IF found
                THEN updateMonthlyStats(s.monthlyStats, monthKey,
                        [smashedDelta |-> 1, missedDelta |-> 0,
                         smashedItem |-> <<MonthlyItem(LastById(s.todos, id), nowISO, "todo")>>,
                         missedItem |-> Null])
                ELSE s.monthlyStats]

\* (mutant) the habit is smashed whatever its activeBugState
isSmashTarget_AnyState(item, id) == item.id = id

\* the map callback of smashRecurrent goes on for this item
isSmashTarget(item, id) == item.id = id /\ item.activeBugState = "unlocked"

\* (mutant) the next due date is counted from the day of the smash
advanceDueDate_FromToday(item, nowISO) ==
    addIntervalDays(toDateOnly(nowISO), item.intervalType)

\* the nextDueDateISO smashRecurrent stores
advanceDueDate(item, nowISO) ==
    addIntervalDays(IF item.nextDueDateISO = Null THEN toDateOnly(nowISO)
                    ELSE item.nextDueDateISO,
                    item.intervalType)

smashRecurrent(s, id, nowISO) ==
    LET monthKey == getMonthKey(nowISO)
        hit(item) == isSmashTarget(item, id)
        found == \E i \in 1..Len(s.recurrent) : hit(s.recurrent[i])
        target == s.recurrent[CHOOSE i \in 1..Len(s.recurrent) :
                      hit(s.recurrent[i])
                      /\ \A j \in (i + 1)..Len(s.recurrent) : ~hit(s.recurrent[j])]
        coinsEarned == IF found THEN COIN_REWARDS(target.difficulty) ELSE 0
        smash(item) ==
            IF ~hit(item) THEN item
            ELSE [item EXCEPT
                    !.activeBugState = "null",
                    !.remainingToday = 0,
                    !.lastOutcome = "null",
                    !.nextDueDateISO = advanceDueDate(item, nowISO)]
    IN  [s EXCEPT
            !.recurrent = MapSeq(s.recurrent, smash),
            !.coins = s.coins + coinsEarned,
            !.monthlyStats =
                IF found
                THEN updateMonthlyStats(s.monthlyStats, monthKey,
                        [smashedDelta |-> 1, missedDelta |-> 0,
                         smashedItem |-> <<MonthlyItem(target, nowISO, "recurrent")>>,
                         missedItem |-> Null])
                ELSE s.monthlyStats]

\* (mutant) remainingToday is left as it was
updateRecurrent_KeepsRemaining(s, id, updates) ==
    LET upd(item) ==
            IF item.id = id
            THEN [item EXCEPT !.title = updates.title,
                              !.difficulty = updates.difficulty,
                              !.intervalType = updates.intervalType,
                              !.timesPerDay = updates.timesPerDay]
            ELSE item
    IN  [s EXCEPT !.recurrent = MapSeq(s.recurrent, upd)]

updateRecurrent(s, id, updates) ==
    LET upd(item) ==
            IF item.id = id
            THEN [item EXCEPT !.title = updates.title,
                              !.difficulty = updates.difficulty,
                              !.intervalType = updates.intervalType,
                              !.timesPerDay = updates.timesPerDay,
                              !.remainingToday = Min(item.remainingToday,
                                                     updates.timesPerDay)]
            ELSE item
    IN  [s EXCEPT !.recurrent = MapSeq(s.recurrent, upd)]

deleteRecurrent(s, id, nowISO) ==
    IF ~HasId(s.recurrent, id) THEN s
    ELSE [s EXCEPT !.recurrent = WithoutId(s.recurrent, id),
                   !.recentlyDeleted = <<[type |-> "recurrent",
                                          item |-> FindById(s.recurrent, id),
                                          deletedAtISO |-> nowISO]>>]

\* (mutant) the entity comes back at the end of its collection
reinsert_AtEnd(item, items) == items \o <<item>>

\* [item, ...items]
reinsert(item, items) == <<item>> \o items

undoRecentlyDeleted(s) ==
    IF s.recentlyDeleted = Null THEN s
    ELSE IF s.recentlyDeleted[1].type = "todo"
    THEN [s EXCEPT !.todos = reinsert(s.recentlyDeleted[1].item, s.todos),
                   !.recentlyDeleted = Null]
    ELSE [s EXCEPT !.recurrent = reinsert(s.recentlyDeleted[1].item, s.recurrent),
                   !.recentlyDeleted = Null]

clearRecentlyDeleted(s) == [s EXCEPT !.recentlyDeleted = Null]

\* (mutant) the undo takes the entity's reward back instead of restoring
undoCoins_SubtractsReward(s, a) ==
    s.coins - COIN_REWARDS(IF a.type = "todo" THEN a.prevTodo.difficulty
                           ELSE a.prevRecurrent.difficulty)

\* coins: prevCoins
undoCoins(s, a) == a.prevCoins

\* (mutant) the undo leaves infestation as it is
undoInfestation_NotRestored(s, a) == s.infestation

\* infestation: prevInfestation
undoInfestation(s, a) == a.prevInfestation

\* (mutant) a snapshotted entity that is no longer in the collection is put
\* back at its head
restoreIn_Reinserts(items, itemId, prev) ==
    IF HasId(items, itemId)
    THEN LET restore(item) == IF item.id = itemId THEN prev ELSE item
         IN  MapSeq(items, restore)
    ELSE <<prev>> \o items

\* items.map((item) => item.id === itemId ? prev : item)
restoreIn(items, itemId, prev) ==
    LET restore(item) == IF item.id = itemId THEN prev ELSE item
    IN  MapSeq(items, restore)

undoLastAction(s) ==
    IF s.lastAction = Null THEN s
    ELSE LET a == s.lastAction[1]
         IN  IF a.type = "todo"
             THEN [s EXCEPT !.todos = restoreIn(s.todos, a.itemId, a.prevTodo),
                            !.coins = undoCoins(s, a),
                            !.infestation = undoInfestation(s, a),
                            !.monthlyStats = a.prevMonthlyStats,
                            !.lastAction = Null]
             ELSE [s EXCEPT !.recurrent = restoreIn(s.recurrent, a.itemId,
                                                    a.prevRecurrent),
                            !.coins = undoCoins(s, a),
                            !.infestation = undoInfestation(s, a),
                            !.monthlyStats = a.prevMonthlyStats,
                            !.lastAction = Null]

clearLastAction(s) == [s EXCEPT !.lastAction = Null]

\* (mutant) a fail costs at least one point, whatever was found
penalize_AtLeastOne(current, failWeight) ==
    Min(MAX_INFESTATION, current + Max(1, failWeight))

\* (mutant) the penalty is added without the cap
penalize_NoCap(current, failWeight) == current + failWeight

\* Math.min(10, state.infestation + failWeight)
penalize(current, failWeight) == Min(MAX_INFESTATION, current + failWeight)

failTodo(s, id, nowISO) ==
    LET monthKey == getMonthKey(nowISO)
        found == HasId(s.todos, id)
        failWeight == IF found THEN FAIL_WEIGHTS(LastById(s.todos, id).difficulty)
                      ELSE 0
        mark(todo) == IF todo.id # id THEN todo
                      ELSE [todo EXCEPT !.lastOutcome = "minus"]
    IN  [s EXCEPT
            !.todos = MapSeq(s.todos, mark),
            !.infestation = penalize(s.infestation, failWeight),
            !.monthlyStats =
                IF found
                THEN updateMonthlyStats(s.monthlyStats, monthKey,
                        [missedDelta |-> 1, smashedDelta |-> -1,
                         smashedItem |-> Null,
                         missedItem |-> <<MonthlyItem(LastById(s.todos, id), nowISO, "todo")>>])
                ELSE s.monthlyStats,
            !.lastAction =
                IF found
                THEN <<[type |-> "todo", itemId |-> id,
                        prevTodo |-> LastById(s.todos, id),
                        prevCoins |-> s.coins,
                        prevInfestation |-> s.infestation,
                        prevMonthlyStats |-> s.monthlyStats,
                        actionAtISO |-> nowISO]>>
                ELSE s.lastAction]

\* ---------------------------------------------------------------- actions

DAY_MS == 24 * 60 * 60 * 1000
UNDO_WINDOW_MS == 10000

\* Date.now() - new Date(thenISO).getTime(), in milliseconds
elapsedMs(nowISO, thenISO) ==
    (parseDateOnly(nowISO.date) - parseDateOnly(thenISO.date)) * DAY_MS
    + nowISO.ms - thenISO.ms

\* the instant n milliseconds (less than a day) after nowISO
PlusMs(nowISO, n) ==
    IF nowISO.ms + n < DAY_MS THEN [nowISO EXCEPT !.ms = @ + n]
    ELSE [date |-> formatDateOnly(parseDateOnly(nowISO.date) + 1),
          ms |-> nowISO.ms + n - DAY_MS]

\* (mutant) no cleanup: the timeout armed for the older entry stays pending
\* and is the first to fire
armTimer_NoCleanup(timer, slotBefore, slotAfter, stampISO, nowISO) ==
    IF slotAfter = slotBefore THEN timer
    ELSE IF slotAfter = Null THEN Null
    ELSE IF timer # Null THEN timer
    ELSE <<PlusMs(nowISO, Max(0, UNDO_WINDOW_MS - elapsedMs(nowISO, stampISO)))>>

\* An expiry effect of App, run when its slot has changed: the cleanup of the
\* previous run cancels the pending timeout; an empty slot arms nothing, an
\* occupied one arms a timeout for what is left of the window.  The pending
\* timeout is Null or <<the instant it is due>>.  The effect is taken to be
\* flushed with the commit of the write that changed the slot.
armTimer(timer, slotBefore, slotAfter, stampISO, nowISO) ==
    IF slotAfter = slotBefore THEN timer
    ELSE IF slotAfter = Null THEN Null
    ELSE <<PlusMs(nowISO, Max(0, UNDO_WINDOW_MS - elapsedMs(nowISO, stampISO)))>>

NoTimers == [recentlyDeleted |-> Null, lastAction |-> Null]

\* both expiry effects of App after the document became s at nowISO
effects(s, nowISO) ==
    [recentlyDeleted |->
         armTimer(timers.recentlyDeleted, recentlyDeleted, s.recentlyDeleted,
                  IF s.recentlyDeleted = Null THEN nowISO
                  ELSE s.recentlyDeleted[1].deletedAtISO, nowISO),
     lastAction |->
         armTimer(timers.lastAction, lastAction, s.lastAction,
                  IF s.lastAction = Null THEN nowISO
                  ELSE s.lastAction[1].actionAtISO, nowISO)]

\* set(...): the reducer's result replaces the document, and the effects that
\* depend on it run.  A key the store does not know (monthlyProgress of a
\* legacy document) is carried along by the merge of set.  steps counts the
\* operations of the run that changed the document.
Apply(s) ==
    /\ steps < MaxSteps
    /\ steps' = IF s = Doc THEN steps ELSE steps + 1
    /\ todos' = s.todos
    /\ recurrent' = s.recurrent
    /\ coins' = s.coins
    /\ infestation' = s.infestation
    /\ monthlyStats' = s.monthlyStats
    /\ recentlyDeleted' = s.recentlyDeleted
    /\ lastAction' = s.lastAction
    /\ monthlyProgress' = monthlyProgress
    /\ timers' = effects(s, clock)

Init ==
    /\ todos = <<>>
    /\ recurrent = <<>>
    /\ coins = 0
    /\ infestation = 0
    /\ monthlyStats = <<>>
    /\ recentlyDeleted = Null
    /\ lastAction = Null
    /\ monthlyProgress = <<>>
    /\ timers = NoTimers
    /\ clock = [date |-> StartDate, ms |-> 0]
    /\ nextId = 1
    /\ steps = 0

AddTodo(title, difficulty, count) ==
    LET n == Min(MAX_COUNT, Max(1, count))
    IN  /\ nextId + n - 1 <= MaxIds
        /\ Apply(addTodo(Doc, title, difficulty, count,
                         [i \in 1..n |-> nextId + i - 1], clock))
        /\ nextId' = nextId + n
            /\ UNCHANGED clock

UpdateTodo(id, title, difficulty) ==
    /\ Apply(updateTodo(Doc, id, [title |-> title, difficulty |-> difficulty]))
    /\ UNCHANGED <<clock, nextId>>

DeleteTodo(id) ==
    /\ Apply(deleteTodo(Doc, id, clock))
    /\ UNCHANGED <<clock, nextId>>

AddRecurrent(title, difficulty, intervalType, timesPerDay) ==
    /\ nextId <= MaxIds
    /\ Apply(addRecurrent(Doc, title, difficulty, intervalType, timesPerDay,
                          nextId, clock))
    /\ nextId' = nextId + 1
    /\ UNCHANGED clock

SpawnDueRecurrentBugs ==
    /\ Apply(spawnDueRecurrentBugs(Doc, clock))
    /\ UNCHANGED <<clock, nextId>>

CompleteRecurrent(id) ==
    /\ Apply(completeRecurrent(Doc, id))
    /\ UNCHANGED <<clock, nextId>>

FailRecurrent(id) ==
    /\ Apply(failRecurrent(Doc, id, clock))
    /\ UNCHANGED <<clock, nextId>>

UnlockTodo(id) ==
    /\ Apply(unlockTodo(Doc, id, clock))
    /\ UNCHANGED <<clock, nextId>>

SmashTodo(id) ==
    /\ Apply(smashTodo(Doc, id, clock))
    /\ UNCHANGED <<clock, nextId>>

SmashRecurrent(id) ==
    /\ Apply(smashRecurrent(Doc, id, clock))
    /\ UNCHANGED <<clock, nextId>>

UpdateRecurrent(id, title, difficulty, intervalType, timesPerDay) ==
    /\ Apply(updateRecurrent(Doc, id,
                [title |-> title, difficulty |-> difficulty,
                 intervalType |-> intervalType, timesPerDay |-> timesPerDay]))
    /\ UNCHANGED <<clock, nextId>>

DeleteRecurrent(id) ==
    /\ Apply(deleteRecurrent(Doc, id, clock))
    /\ UNCHANGED <<clock, nextId>>

UndoRecentlyDeleted ==
    /\ Apply(undoRecentlyDeleted(Doc))
    /\ UNCHANGED <<clock, nextId>>

UndoLastAction ==
    /\ Apply(undoLastAction(Doc))
    /\ UNCHANGED <<clock, nextId>>

FailTodo(id) ==
    /\ Apply(failTodo(Doc, id, clock))
    /\ UNCHANGED <<clock, nextId>>

\* a pending timeout may fire: at any moment not before it is due
timerDue(timer, nowISO) ==
    /\ timer # Null
    /\ elapsedMs(nowISO, timer[1]) >= 0

\* The expiry timeouts of App fire.
ClearRecentlyDeleted ==
    /\ timerDue(timers.recentlyDeleted, clock)
    /\ Apply(clearRecentlyDeleted(Doc))
    /\ UNCHANGED <<clock, nextId>>

ClearLastAction ==
    /\ timerDue(timers.lastAction, clock)
    /\ Apply(clearLastAction(Doc))
    /\ UNCHANGED <<clock, nextId>>

\* The wall clock: midnight passes.
NextDay ==
    /\ steps < MaxSteps
    /\ steps' = steps + 1
    /\ clock' = [date |-> formatDateOnly(parseDateOnly(clock.date) + 1), ms |-> 0]
    /\ UNCHANGED <<todos, recurrent, coins, infestation, monthlyStats,
                   recentlyDeleted, lastAction, monthlyProgress, timers,
                   nextId>>

Next ==
    \/ \E title \in TitleInputs, difficulty \in DifficultyInputs, count \in CountInputs :
            AddTodo(title, difficulty, count)
    \/ \E id \in Ids, title \in TitleInputs, difficulty \in DifficultyInputs :
            UpdateTodo(id, title, difficulty)
    \/ \E id \in Ids : DeleteTodo(id)
    \/ \E title \in TitleInputs, difficulty \in DifficultyInputs,
          intervalType \in IntervalInputs, timesPerDay \in TimesPerDayInputs :
            AddRecurrent(title, difficulty, intervalType, timesPerDay)
    \/ SpawnDueRecurrentBugs
    \/ \E id \in Ids : CompleteRecurrent(id)
    \/ \E id \in Ids : FailRecurrent(id)
    \/ \E id \in Ids : UnlockTodo(id)
    \/ \E id \in Ids : SmashTodo(id)
    \/ \E id \in Ids : SmashRecurrent(id)
    \/ \E id \in Ids, title \in TitleInputs, difficulty \in DifficultyInputs,
          intervalType \in IntervalInputs, timesPerDay \in TimesPerDayInputs :
            UpdateRecurrent(id, title, difficulty, intervalType, timesPerDay)
    \/ \E id \in Ids : DeleteRecurrent(id)
    \/ UndoRecentlyDeleted
    \/ UndoLastAction
    \/ \E id \in Ids : FailTodo(id)
    \/ ClearRecentlyDeleted
    \/ ClearLastAction
    \/ NextDay

Spec == Init /\ [][Next]_vars

\* ---------------------------------------------------- the one-off tasks alone

TodoNext ==
    \/ \E title \in TitleInputs, difficulty \in DifficultyInputs, count \in CountInputs :
            AddTodo(title, difficulty, count)
    \/ \E id \in Ids, title \in TitleInputs, difficulty \in DifficultyInputs :
            UpdateTodo(id, title, difficulty)
    \/ \E id \in Ids : DeleteTodo(id)
    \/ \E id \in Ids : UnlockTodo(id)
    \/ \E id \in Ids : SmashTodo(id)
    \/ \E id \in Ids : FailTodo(id)
    \/ UndoRecentlyDeleted
    \/ UndoLastAction
    \/ ClearRecentlyDeleted
    \/ ClearLastAction
    \/ NextDay

TodoSpec == Init /\ [][TodoNext]_vars

\* ------------------------------------------------- the habit scheduler alone

\* the document holds one habit, added today
HabitInit ==
    /\ todos = <<>>
    /\ \E title \in TitleInputs, difficulty \in DifficultyInputs,
          intervalType \in IntervalInputs, timesPerDay \in TimesPerDayInputs :
          recurrent = addRecurrent(InitialDoc, title, difficulty, intervalType,
                                   timesPerDay, 1,
                                   [date |-> StartDate, ms |-> 0]).recurrent
    /\ coins = 0
    /\ infestation = 0
    /\ monthlyStats = <<>>
    /\ recentlyDeleted = Null
    /\ lastAction = Null
    /\ monthlyProgress = <<>>
    /\ timers = NoTimers
    /\ clock = [date |-> StartDate, ms |-> 0]
    /\ nextId = 2
    /\ steps = 0

HabitNext ==
    \/ \E title \in TitleInputs, difficulty \in DifficultyInputs,
          intervalType \in IntervalInputs, timesPerDay \in TimesPerDayInputs :
            AddRecurrent(title, difficulty, intervalType, timesPerDay)
    \/ SpawnDueRecurrentBugs
    \/ \E id \in Ids : CompleteRecurrent(id)
    \/ \E id \in Ids : FailRecurrent(id)
    \/ \E id \in Ids : SmashRecurrent(id)
    \/ \E id \in Ids, title \in TitleInputs, difficulty \in DifficultyInputs,
          intervalType \in IntervalInputs, timesPerDay \in TimesPerDayInputs :
            UpdateRecurrent(id, title, difficulty, intervalType, timesPerDay)
    \/ \E id \in Ids : DeleteRecurrent(id)
    \/ UndoRecentlyDeleted
    \/ UndoLastAction
    \/ ClearRecentlyDeleted
    \/ ClearLastAction
    \/ NextDay

HabitSpec == HabitInit /\ [][HabitNext]_vars

\* --------------------------------------- one habit's cycle around the calendar

\* days on which the habit is created: ends of months and of years, leap and
\* common Februaries
DueStartDates == {<<2024, 1, 31>>, <<2023, 12, 31>>, <<2024, 2, 28>>,
                  <<2025, 2, 28>>, <<2024, 12, 26>>, <<2025, 2, 22>>}

DueInit ==
    /\ todos = <<>>
    /\ \E date \in DueStartDates :
          /\ clock = [date |-> date, ms |-> 0]
          /\ \E difficulty \in DifficultyInputs, intervalType \in IntervalTypes,
                timesPerDay \in TimesPerDayInputs :
                recurrent = addRecurrent(InitialDoc, <<"a">>, difficulty,
                                         intervalType, timesPerDay, 1,
                                         [date |-> date, ms |-> 0]).recurrent
    /\ coins = 0
    /\ infestation = 0
    /\ monthlyStats = <<>>
    /\ recentlyDeleted = Null
    /\ lastAction = Null
    /\ monthlyProgress = <<>>
    /\ timers = NoTimers
    /\ nextId = 2
    /\ steps = 0

DueNext ==
    \/ SpawnDueRecurrentBugs
    \/ \E id \in Ids : CompleteRecurrent(id)
    \/ \E id \in Ids : SmashRecurrent(id)
    \/ NextDay

DueSpec == DueInit /\ [][DueNext]_vars

\* ------------------------------------------- slots rewritten within the window

\* the wall clock moves by half the undo window
TICK_MS == UNDO_WINDOW_MS \div 2

Tick ==
    /\ clock.ms < MaxTicks * TICK_MS
    /\ clock' = PlusMs(clock, TICK_MS)
    /\ UNCHANGED <<todos, recurrent, coins, infestation, monthlyStats,
                   recentlyDeleted, lastAction, monthlyProgress, timers,
                   nextId, steps>>

\* the document holds two tasks
TimerInit ==
    /\ \E difficulty \in DifficultyInputs :
          todos = addTodo(InitialDoc, <<"a">>, difficulty, 2, <<1, 2>>,
                          [date |-> StartDate, ms |-> 0]).todos
    /\ recurrent = <<>>
    /\ coins = 0
    /\ infestation = 0
    /\ monthlyStats = <<>>
    /\ recentlyDeleted = Null
    /\ lastAction = Null
    /\ monthlyProgress = <<>>
    /\ timers = NoTimers
    /\ clock = [date |-> StartDate, ms |-> 0]
    /\ nextId = 3
    /\ steps = 0

TimerNext ==
    \/ Tick
    \/ \E id \in Ids : DeleteTodo(id)
    \/ \E id \in Ids : UnlockTodo(id)
    \/ \E id \in Ids : FailTodo(id)
    \/ UndoRecentlyDeleted
    \/ UndoLastAction
    \/ ClearRecentlyDeleted
    \/ ClearLastAction

TimerSpec == TimerInit /\ [][TimerNext]_vars

\* ------------------------------------------------------------ rehydration

\* (mutant) the legacy count is taken for the misses
migrate_AsMissed(legacyProgress) ==
    [key \in DOMAIN legacyProgress |->
        [smashedCount |-> 0, missedCount |-> legacyProgress[key],
         smashedItems |-> <<>>, missedItems |-> <<>>]]

\* the monthlyStats built from a legacy monthlyProgress map
migrate(legacyProgress) ==
    [key \in DOMAIN legacyProgress |->
        [smashedCount |-> legacyProgress[key], missedCount |-> 0,
         smashedItems |-> <<>>, missedItems |-> <<>>]]

\* onRehydrateStorage: s is the persisted document merged over the initial
\* state, legacyProgress the monthlyProgress key found in it (<<>> if none)
onRehydrateStorage(s, legacyProgress) ==
    LET migrated == IF DOMAIN legacyProgress # {}
                    THEN [s EXCEPT !.monthlyStats = migrate(legacyProgress)]
                    ELSE s
    IN  clearLastAction(clearRecentlyDeleted(migrated))

\* the monthlyProgress maps of the persisted documents
LegacyCounts == {1, 3}
LegacyProgressInputs ==
    {<<>>} \cup {[key \in {<<2024, 1>>} |-> n] : n \in LegacyCounts}
           \cup {[key \in {<<2023, 12>>, <<2024, 1>>} |-> n] : n \in LegacyCounts}

\* The app starts on a persisted document that holds one task and, for a
\* legacy document, a monthlyProgress map and no monthlyStats.
LegacyInit ==
    /\ \E difficulty \in DifficultyInputs, legacyProgress \in LegacyProgressInputs :
          /\ todos = addTodo(InitialDoc, <<"a">>, difficulty, 1, <<1>>,
                             [date |-> StartDate, ms |-> 0]).todos
          /\ monthlyProgress = legacyProgress
          /\ monthlyStats = onRehydrateStorage(InitialDoc, legacyProgress).monthlyStats
    /\ recurrent = <<>>
    /\ coins = 0
    /\ infestation = 0
    /\ recentlyDeleted = Null
    /\ lastAction = Null
    /\ timers = NoTimers
    /\ clock = [date |-> StartDate, ms |-> 0]
    /\ nextId = 2
    /\ steps = 0

\* The app is restarted: the document persisted after the last set, with every
\* key it holds, is read back.
Rehydrate ==
    /\ Apply(onRehydrateStorage(Doc, monthlyProgress))
    /\ UNCHANGED <<clock, nextId>>

LegacyNext ==
    \/ Rehydrate
    \/ \E id \in Ids : UnlockTodo(id)
    \/ \E id \in Ids : SmashTodo(id)
    \/ \E id \in Ids : FailTodo(id)
    \/ \E id \in Ids : DeleteTodo(id)
    \/ NextDay

LegacySpec == LegacyInit /\ [][LegacyNext]_vars

\* ------------------------------------------------ long streams of events

\* Date.now() one millisecond later
Later(nowISO) == [nowISO EXCEPT !.ms = @ + 1]

\* One operation of a long run: time has passed since the last one.
Event(s) ==
    /\ steps < MaxEvents
    /\ steps' = steps + 1
    /\ clock' = Later(clock)
    /\ todos' = s.todos
    /\ recurrent' = s.recurrent
    /\ coins' = s.coins
    /\ infestation' = s.infestation
    /\ monthlyStats' = s.monthlyStats
    /\ recentlyDeleted' = s.recentlyDeleted
    /\ lastAction' = s.lastAction
    /\ timers' = effects(s, Later(clock))
    /\ UNCHANGED <<monthlyProgress, nextId>>

\* the document holds one task
StatsInit ==
    /\ \E difficulty \in DifficultyInputs :
          todos = addTodo(InitialDoc, <<"a">>, difficulty, 1, <<1>>,
                          [date |-> StartDate, ms |-> 0]).todos
    /\ recurrent = <<>>
    /\ coins = 0
    /\ infestation = 0
    /\ monthlyStats = <<>>
    /\ recentlyDeleted = Null
    /\ lastAction = Null
    /\ monthlyProgress = <<>>
    /\ timers = NoTimers
    /\ clock = [date |-> StartDate, ms |-> 0]
    /\ nextId = 2
    /\ steps = 0

\* The runs explored are a stream of smashes followed by a stream of fails.
StatsSmashTodo ==
    /\ lastAction = Null
    /\ Event(smashTodo(Doc, todos[1].id, Later(clock)))

StatsFailTodo ==
    /\ todos # <<>>
    /\ Event(failTodo(Doc, todos[1].id, Later(clock)))

StatsNext == StatsSmashTodo \/ StatsFailTodo

StatsSpec == StatsInit /\ [][StatsNext]_vars

\* ------------------------------------------------------------------ the shop

PoisonSizes == {"small", "medium", "large"}

POISON_COST(size) ==
    CASE size = "small" -> 5
      [] size = "medium" -> 12
      [] size = "large" -> 18

POISON_CLEAR(size) ==
    CASE size = "small" -> 1
      [] size = "medium" -> 3
      [] size = "large" -> 5

\* (mutant) the purchase goes through whatever the balance
canAfford_Always(balance, cost) == TRUE

canAfford(balance, cost) == balance >= cost

buyPoison(s, size) ==
    IF ~canAfford(s.coins, POISON_COST(size)) THEN s
    ELSE [s EXCEPT !.coins = s.coins - POISON_COST(size),
                   !.infestation = Max(0, s.infestation - POISON_CLEAR(size))]

\* overrunActive of InfestationScreen
overrun(s) == s.infestation >= MAX_INFESTATION

ShopInit ==
    /\ todos = <<>>
    /\ recurrent = <<>>
    /\ coins \in 0..MaxCoins
    /\ infestation \in 0..MAX_INFESTATION
    /\ monthlyStats = <<>>
    /\ recentlyDeleted = Null
    /\ lastAction = Null
    /\ monthlyProgress = <<>>
    /\ timers = NoTimers
    /\ clock = [date |-> StartDate, ms |-> 0]
    /\ nextId = 1
    /\ steps = 0

BuyPoison(size) ==
    /\ Apply(buyPoison(Doc, size))
    /\ UNCHANGED <<clock, nextId>>

ShopNext == \E size \in PoisonSizes : BuyPoison(size)

ShopSpec == ShopInit /\ [][ShopNext]_vars

\* ------------------------------------------------------- the task screen

\* lastActionActive of TodoScreen, computed when the screen rendered
lastActionActive(s, renderedAtISO) ==
    /\ s.lastAction # Null
    /\ s.lastAction[1].type = "todo"
    /\ elapsedMs(renderedAtISO, s.lastAction[1].actionAtISO) <= UNDO_WINDOW_MS

canUndoAction(s, id, renderedAtISO) ==
    /\ lastActionActive(s, renderedAtISO)
    /\ s.lastAction[1].itemId = id

\* the undo button of a task, pressed on the screen rendered at renderedAtISO
undoHandler(s, id, renderedAtISO) ==
    IF canUndoAction(s, id, renderedAtISO) THEN undoLastAction(s) ELSE s

\* ------------------------------------------------------------------ claims

TodoIds == {id \in Ids : HasId(todos, id)}
HabitIds == {id \in Ids : HasId(recurrent, id)}
Todo(id) == FindById(todos, id)
Habit(id) == FindById(recurrent, id)
HabitIn(s, id) == FindById(s.recurrent, id)

\* time-of-day parts of the timestamps handed to the operations
TimeInputs == {0, 43200000}
At(date, ms) == [date |-> date, ms |-> ms]
DayAfter(date) == formatDateOnly(parseDateOnly(date) + 1)

\* C1: smashTodo(id) on a locked task is a no-op: the task stays locked and
\* coins, infestation, monthlyStats and both undo slots are unchanged.
C1_SmashLockedTodoIsNoOp ==
    \A id \in TodoIds :
        Todo(id).status = "locked" => smashTodo(Doc, id, clock) = Doc

\* C2: a task's status changes only by locked -> unlocked, unlocked -> smashed,
\* or an undo reversal unlocked -> locked / smashed -> unlocked; no step takes a
\* task from locked to smashed or from smashed to locked.
StatusSteps == {<<"locked", "unlocked">>, <<"unlocked", "smashed">>,
                <<"unlocked", "locked">>, <<"smashed", "unlocked">>}

C2_StatusTransitions ==
    [][\A id \in Ids :
          (HasId(todos, id) /\ HasId(todos', id)) =>
              \/ FindById(todos', id).status = Todo(id).status
              \/ <<Todo(id).status, FindById(todos', id).status>> \in StatusSteps]_vars

\* C3: smashTodo is idempotent on an already-smashed task: a second smashTodo
\* changes neither coins nor monthlyStats nor any other part of the document.
C3_SmashSmashedTodoIsNoOp ==
    \A id \in TodoIds :
        Todo(id).status = "smashed" => smashTodo(Doc, id, clock) = Doc

\* C4: smashRecurrent(id) on a habit whose activeBugState is not unlocked
\* leaves the whole document unchanged; a second smashRecurrent right after a
\* successful one changes nothing (coins, monthlyStats, nextDueDate included).
C4_SmashRecurrentNeedsUnlocked ==
    \A id \in HabitIds :
        /\ Habit(id).activeBugState # "unlocked" =>
               smashRecurrent(Doc, id, clock) = Doc
        /\ Habit(id).activeBugState = "unlocked" =>
               \A s1 \in {smashRecurrent(Doc, id, clock)} :
                   /\ s1 # Doc
                   /\ \A ms \in TimeInputs :
                          smashRecurrent(s1, id, At(clock.date, ms)) = s1

\* a habit that has been smashed after its spawn: not active, due date past
\* the spawn date, reward credited
C4_Witness ==
    \E id \in HabitIds :
        /\ Habit(id).activeBugState = "null"
        /\ Habit(id).lastSpawnDateISO # Null
        /\ parseDateOnly(Habit(id).nextDueDateISO) > parseDateOnly(Habit(id).lastSpawnDateISO)
        /\ coins > 0
        /\ smashRecurrent(Doc, id, clock) = Doc

\* C5: immediately after a successful undoable action (unlockTodo, failTodo,
\* failRecurrent), undoLastAction restores coins, infestation, monthlyStats and
\* the affected entity to their values before the action and empties the slot.
Restored(result) ==
    \A s \in {result} :
        /\ s.coins = coins
        /\ s.infestation = infestation
        /\ s.monthlyStats = monthlyStats
        /\ s.todos = todos
        /\ s.recurrent = recurrent
        /\ s.lastAction = Null

C5_UndoRestoresSnapshot ==
    /\ \A id \in TodoIds :
          /\ Todo(id).status = "locked" =>
                 \A s1 \in {unlockTodo(Doc, id, clock)} :
                     s1.lastAction # Null /\ Restored(undoLastAction(s1))
          /\ \A s1 \in {failTodo(Doc, id, clock)} :
                 s1.lastAction # Null /\ Restored(undoLastAction(s1))
    /\ \A id \in HabitIds :
          \A s1 \in {failRecurrent(Doc, id, clock)} :
              s1.lastAction # Null /\ Restored(undoLastAction(s1))

\* a locked task in a document with coins, infestation and statistics to lose,
\* whose unlock and fail both change the document
C5_Witness ==
    \E id \in TodoIds :
        /\ Todo(id).status = "locked"
        /\ coins > 0 /\ infestation > 0 /\ monthlyStats # <<>>
        /\ unlockTodo(Doc, id, clock).todos # todos
        /\ failTodo(Doc, id, clock).infestation > infestation
        /\ Restored(undoLastAction(failTodo(Doc, id, clock)))

\* C6: once an undoable action has stored a snapshot, any later engine
\* operation (add, update, delete, smash, complete, spawn) leaves the undo
\* slot empty.
C6_LaterOperationClearsUndo ==
    lastAction # Null =>
        /\ \A id \in TodoIds :
              /\ smashTodo(Doc, id, clock).lastAction = Null
              /\ deleteTodo(Doc, id, clock).lastAction = Null
              /\ \A difficulty \in DifficultyInputs :
                    updateTodo(Doc, id, [title |-> Todo(id).title,
                                         difficulty |-> difficulty]).lastAction = Null
        /\ \A id \in HabitIds :
              /\ smashRecurrent(Doc, id, clock).lastAction = Null
              /\ completeRecurrent(Doc, id).lastAction = Null
              /\ deleteRecurrent(Doc, id, clock).lastAction = Null
        /\ spawnDueRecurrentBugs(Doc, clock).lastAction = Null
        /\ \A title \in TitleInputs, difficulty \in DifficultyInputs :
              addTodo(Doc, title, difficulty, 1, <<nextId>>, clock).lastAction = Null

\* C7: coins are non-negative in every reachable state.
C7_CoinsNonNegative == coins >= 0

\* coins have been earned since the snapshot an undo would restore
C7_Witness ==
    /\ lastAction # Null
    /\ lastAction[1].prevCoins < coins
    /\ undoLastAction(Doc).coins < coins

\* C8: infestation stays within [0, 10] in every reachable state, and every
\* fail or undo requested in it keeps it there.
C8_InfestationInRange ==
    /\ infestation \in 0..10
    /\ undoLastAction(Doc).infestation \in 0..10
    /\ \A id \in Ids :
          /\ failTodo(Doc, id, clock).infestation \in 0..10
          /\ failRecurrent(Doc, id, clock).infestation \in 0..10

\* a fail whose weight passes the maximum
C8_Witness ==
    \E id \in TodoIds :
        /\ infestation + FAIL_WEIGHTS(Todo(id).difficulty) > 10
        /\ failTodo(Doc, id, clock).infestation = 10

\* C9: spawnDueRecurrentBugs is idempotent per calendar day: two calls whose
\* timestamps have the same date part, whatever their times of day, yield the
\* document one call yields.
C9_SpawnIdempotentPerDay ==
    \A date \in {clock.date, DayAfter(clock.date)} :
        \A ms1 \in TimeInputs :
            \A s1 \in {spawnDueRecurrentBugs(Doc, At(date, ms1))} :
                \A ms2 \in TimeInputs :
                    spawnDueRecurrentBugs(s1, At(date, ms2)) = s1

\* a habit spawned today and partly completed: a second spawn later the same
\* day must not reset its progress; and a habit a first spawn acts on
C9_Witness ==
    /\ \E id \in HabitIds :
          /\ Habit(id).lastSpawnDateISO = clock.date
          /\ Habit(id).activeBugState = "locked"
          /\ Habit(id).remainingToday < Habit(id).timesPerDay
    /\ \E ms \in TimeInputs :
          spawnDueRecurrentBugs(Doc, At(DayAfter(clock.date), ms)) # Doc

\* C10: for a due daily habit with timesPerDay = 1, spawn on date D,
\* completeRecurrent, smashRecurrent passes through locked, unlocked, null and
\* credits COIN_REWARDS[difficulty].
DueDailyOnce(h, date) ==
    /\ h.intervalType = "daily"
    /\ h.timesPerDay = 1
    /\ isDue(date, h.nextDueDateISO)
    /\ h.lastSpawnDateISO # date

SpawnCompleteSmash(h, date, due) ==
    \A s1 \in {spawnDueRecurrentBugs(Doc, At(date, 0))} :
    \A s2 \in {completeRecurrent(s1, h.id)} :
    \A s3 \in {smashRecurrent(s2, h.id, At(date, 0))} :
        /\ HabitIn(s1, h.id).activeBugState = "locked"
        /\ HabitIn(s2, h.id).activeBugState = "unlocked"
        /\ HabitIn(s3, h.id).activeBugState = "null"
        /\ s3.coins = coins + COIN_REWARDS(h.difficulty)
        /\ HabitIn(s3, h.id).nextDueDateISO = due

\* ... and leaves nextDueDate equal to D + 1 day, for every spawn date D on or
\* after the habit's due date (the claim as stated).
C10_NextDueIsSpawnDatePlusOne ==
    \A i \in 1..Len(recurrent) :
        \A date \in {clock.date, DayAfter(clock.date)} :
            DueDailyOnce(recurrent[i], date) =>
                SpawnCompleteSmash(recurrent[i], date, DayAfter(date))

\* ... and leaves nextDueDate equal to the habit's previous due date + 1 day,
\* which is D + 1 when the habit is spawned on its due date (as amended).
C10_NextDueIsDueDatePlusOne ==
    \A i \in 1..Len(recurrent) :
        \A date \in {clock.date, DayAfter(clock.date)} :
            DueDailyOnce(recurrent[i], date) =>
                SpawnCompleteSmash(recurrent[i], date,
                                   DayAfter(recurrent[i].nextDueDateISO))

\* a daily habit spawned, completed and smashed on its due date, and another
\* spawn date, the day after, on which the habit is overdue
C10_Witness ==
    \E id \in HabitIds :
        /\ Habit(id).intervalType = "daily"
        /\ Habit(id).timesPerDay = 1
        /\ Habit(id).activeBugState = "null"
        /\ Habit(id).lastSpawnDateISO = clock.date
        /\ Habit(id).nextDueDateISO = DayAfter(clock.date)
        /\ coins = COIN_REWARDS(Habit(id).difficulty)
        /\ DueDailyOnce(Habit(id), DayAfter(DayAfter(clock.date)))
        /\ SpawnCompleteSmash(Habit(id), DayAfter(DayAfter(clock.date)),
                              DayAfter(DayAfter(clock.date)))

\* C11: from the initial empty document, addTodo with difficulty d, unlockTodo,
\* smashTodo of that task yields coins = COIN_REWARDS[d] (3 for hard), status
\* smashed, and the current month's smashedCount = 1 with exactly one
\* smashedItems entry.
C11_AddUnlockSmash ==
    Doc = InitialDoc =>
        \A title \in TitleInputs, d \in Difficulties, ms \in TimeInputs :
            \A s1 \in {addTodo(Doc, title, d, 1, <<nextId>>, clock)} :
            \A s2 \in {unlockTodo(s1, nextId, At(clock.date, ms))} :
            \A s3 \in {smashTodo(s2, nextId, At(clock.date, ms))} :
            \A k \in {getMonthKey(clock)} :
                /\ s3.coins = COIN_REWARDS(d)
                /\ d = "hard" => s3.coins = 3
                /\ Len(s3.todos) = 1
                /\ s3.todos[1].id = nextId
                /\ s3.todos[1].status = "smashed"
                /\ DOMAIN s3.monthlyStats = {k}
                /\ s3.monthlyStats[k].smashedCount = 1
                /\ Len(s3.monthlyStats[k].smashedItems) = 1
                /\ s3.monthlyStats[k].smashedItems[1].id = nextId

\* the document after addTodo("a", "hard"), unlockTodo and smashTodo
C11_Witness ==
    /\ recurrent = <<>> /\ Len(todos) = 1
    /\ todos[1].difficulty = "hard" /\ todos[1].status = "smashed"
    /\ lastAction # Null /\ lastAction[1].prevTodo.status = "locked"
    /\ coins = 3
    /\ getMonthKey(clock) \in DOMAIN monthlyStats
    /\ monthlyStats[getMonthKey(clock)].smashedCount = 1
    /\ Len(monthlyStats[getMonthKey(clock)].smashedItems) = 1

\* C12: deleting a task (or habit) and then undoRecentlyDeleted re-inserts
\* exactly that entity, unchanged, at index 0 of its collection, keeps the
\* relative order of the others, and empties the recently-deleted buffer.
C12_UndoDeleteReinsertsAtHead ==
    /\ \A id \in TodoIds :
          \A s1 \in {deleteTodo(Doc, id, clock)} :
              /\ ~HasId(s1.todos, id)
              /\ s1.recentlyDeleted # Null
              /\ undoRecentlyDeleted(s1) =
                     [Doc EXCEPT !.todos = <<Todo(id)>> \o WithoutId(todos, id),
                                 !.recentlyDeleted = Null]
    /\ \A id \in HabitIds :
          \A s1 \in {deleteRecurrent(Doc, id, clock)} :
              /\ ~HasId(s1.recurrent, id)
              /\ s1.recentlyDeleted # Null
              /\ undoRecentlyDeleted(s1) =
                     [Doc EXCEPT !.recurrent = <<Habit(id)>> \o WithoutId(recurrent, id),
                                 !.recentlyDeleted = Null]

\* two tasks, the second of which comes back ahead of the first
C12_Witness ==
    /\ Len(todos) = 2
    /\ recentlyDeleted = Null
    /\ undoRecentlyDeleted(deleteTodo(Doc, todos[2].id, clock)).todos
           = <<todos[2], todos[1]>>

\* C13: undo-delete more than 10 seconds after the deletion is a no-op, even
\* when the clearing timer has not yet fired.
C13_UndoDeleteAfterWindowIsNoOp ==
    (/\ recentlyDeleted # Null
     /\ elapsedMs(clock, recentlyDeleted[1].deletedAtISO) > UNDO_WINDOW_MS)
        => undoRecentlyDeleted(Doc) = Doc

\* C14: unlockTodo(id) takes effect only from status locked: it sets the
\* status to unlocked and records an undo snapshot of the task with the
\* current coins, infestation and monthlyStats; on an unlocked or smashed task
\* it leaves the whole document, the undo slot included, unchanged.
C14_UnlockOnlyFromLocked ==
    \A id \in TodoIds :
        \A s1 \in {unlockTodo(Doc, id, clock)} :
            IF Todo(id).status = "locked"
            THEN /\ FindById(s1.todos, id).status = "unlocked"
                 /\ WithoutId(s1.todos, id) = WithoutId(todos, id)
                 /\ s1.lastAction # Null
                 /\ s1.lastAction[1].type = "todo"
                 /\ s1.lastAction[1].itemId = id
                 /\ s1.lastAction[1].prevTodo = Todo(id)
                 /\ s1.lastAction[1].prevCoins = coins
                 /\ s1.lastAction[1].prevInfestation = infestation
                 /\ s1.lastAction[1].prevMonthlyStats = monthlyStats
                 /\ s1.lastAction[1].actionAtISO = clock
                 /\ s1 = [Doc EXCEPT !.todos = s1.todos, !.lastAction = s1.lastAction]
            ELSE s1 = Doc

\* a task an unlock has just acted on, and which a second unlock leaves alone
\* together with the snapshot of the first
C14_Witness ==
    \E id \in TodoIds :
        /\ Todo(id).status = "unlocked"
        /\ lastAction # Null
        /\ lastAction[1].itemId = id
        /\ lastAction[1].prevTodo.status = "locked"
        /\ unlockTodo(Doc, id, clock) = Doc

\* C15: every operation given an id that matches no live entity leaves todos,
\* habits, coins, infestation, monthlyStats and both undo slots unchanged.
C15_MissingIdIsNoOp ==
    \A id \in 0..MaxIds :
        /\ ~HasId(todos, id) =>
              /\ unlockTodo(Doc, id, clock) = Doc
              /\ smashTodo(Doc, id, clock) = Doc
              /\ failTodo(Doc, id, clock) = Doc
              /\ deleteTodo(Doc, id, clock) = Doc
              /\ \A title \in TitleInputs, difficulty \in DifficultyInputs :
                    updateTodo(Doc, id, [title |-> title,
                                         difficulty |-> difficulty]) = Doc
        /\ ~HasId(recurrent, id) =>
              /\ completeRecurrent(Doc, id) = Doc
              /\ failRecurrent(Doc, id, clock) = Doc
              /\ smashRecurrent(Doc, id, clock) = Doc
              /\ deleteRecurrent(Doc, id, clock) = Doc
              /\ \A title \in TitleInputs, difficulty \in DifficultyInputs,
                    intervalType \in IntervalInputs,
                    timesPerDay \in TimesPerDayInputs :
                    updateRecurrent(Doc, id,
                        [title |-> title, difficulty |-> difficulty,
                         intervalType |-> intervalType,
                         timesPerDay |-> timesPerDay]) = Doc

\* the id of a deleted task, with both undo slots filled and infestation to
\* lose, handed to failTodo
C15_Witness ==
    \E id \in Ids :
        /\ ~HasId(todos, id) /\ ~HasId(recurrent, id)
        /\ todos # <<>>
        /\ recentlyDeleted # Null /\ recentlyDeleted[1].item.id = id
        /\ lastAction # Null
        /\ infestation \in 1..9
        /\ failTodo(Doc, id, clock) = Doc

\* C16: addTodo with a title that is empty after trimming is a no-op: no task
\* is added and the document is unchanged.
BlankTitles == {<<>>, <<" ">>, <<" ", " ">>}

C16_AddTodoBlankTitleIsNoOp ==
    \A title \in BlankTitles, difficulty \in DifficultyInputs :
        addTodo(Doc, title, difficulty, 1, <<nextId>>, clock) = Doc

\* C17: smashedItems and missedItems of every month never hold more than 200
\* entries, whatever the number of smash and fail events; when full, the
\* oldest entry is dropped and the newest is at the head.
PushedAtHead(old, new, nowISO) ==
    /\ Len(new) <= 200
    /\ new[1].dateISO = nowISO
    /\ Tail(new) = SubSeq(old, 1, Min(Len(old), 199))

C17_ItemListsBounded ==
    /\ \A k \in DOMAIN monthlyStats :
          /\ Len(monthlyStats[k].smashedItems) <= 200
          /\ Len(monthlyStats[k].missedItems) <= 200
    /\ \A id \in TodoIds :
       \A nowISO \in {Later(clock)} :
       \A k \in {getMonthKey(nowISO)} :
          /\ PushedAtHead(ensureMonthlyStats(monthlyStats, k).smashedItems,
                          smashTodo(Doc, id, nowISO).monthlyStats[k].smashedItems,
                          nowISO)
          /\ PushedAtHead(ensureMonthlyStats(monthlyStats, k).missedItems,
                          failTodo(Doc, id, nowISO).monthlyStats[k].missedItems,
                          nowISO)

\* 201 smashes: the list is full, its head is the last smash and the entry of
\* the first smash is gone
C17_Witness ==
    \E k \in DOMAIN monthlyStats :
        /\ Len(monthlyStats[k].smashedItems) = 200
        /\ monthlyStats[k].smashedItems[1].dateISO = clock
        /\ monthlyStats[k].smashedItems[200].dateISO.ms = 2
        /\ clock.ms = 201

\* C19: buyPoison(size) with the catalog small 5/1, medium 12/3, large 18/5
\* leaves the document unchanged when coins < cost, and otherwise subtracts the
\* cost from coins and reduces infestation by the clear amount floored at 0
\* (infestation 10, large, enough coins: infestation 5 and overrun false).
C19_BuyPoison ==
    \A size \in PoisonSizes :
    \A cost \in {IF size = "small" THEN 5 ELSE IF size = "medium" THEN 12 ELSE 18} :
    \A clear \in {IF size = "small" THEN 1 ELSE IF size = "medium" THEN 3 ELSE 5} :
    \A s1 \in {buyPoison(Doc, size)} :
        /\ coins < cost => s1 = Doc
        /\ coins >= cost =>
              /\ s1.coins = coins - cost
              /\ s1.infestation = (IF infestation > clear THEN infestation - clear ELSE 0)
              /\ s1 = [Doc EXCEPT !.coins = s1.coins, !.infestation = s1.infestation]
        /\ (size = "large" /\ infestation = 10 /\ coins >= 18) =>
              (overrun(Doc) /\ s1.infestation = 5 /\ ~overrun(s1))
        /\ s1.coins >= 0

\* a purchase of the large poison at overrun, and a balance that cannot pay
\* for the small one
C19_Witness ==
    /\ steps = 1 /\ infestation = 5 /\ coins = 0
    /\ buyPoison(Doc, "small") = Doc

\* C20: smashRecurrent on a monthly habit advances nextDueDate to the same
\* day-of-month in the next month, clamped to the last valid day when that
\* month is shorter (Jan 31 becomes Feb 28, or Feb 29 in a leap year); it never
\* lands in the month after next.
NextMonthClamped(dateOnly) ==
    LET y == IF dateOnly[2] = 12 THEN dateOnly[1] + 1 ELSE dateOnly[1]
        m == IF dateOnly[2] = 12 THEN 1 ELSE dateOnly[2] + 1
    IN  <<y, m, Min(dateOnly[3], DaysInMonth(y, m))>>

C20_MonthlyAdvanceClamps ==
    \A i \in 1..Len(recurrent) :
        (recurrent[i].intervalType = "monthly"
         /\ recurrent[i].activeBugState = "unlocked") =>
            HabitIn(smashRecurrent(Doc, recurrent[i].id, clock),
                    recurrent[i].id).nextDueDateISO
                = NextMonthClamped(recurrent[i].nextDueDateISO)

\* C18: a habit's activeBugState changes only along null -> locked (spawn when
\* due), locked -> unlocked (the completion that brings remainingToday to 0)
\* and unlocked -> null (smash, with the due date advanced), apart from an undo
\* restoring a snapshot; never null -> unlocked or locked -> null.
DocNext == [todos |-> todos', recurrent |-> recurrent', coins |-> coins',
            infestation |-> infestation', monthlyStats |-> monthlyStats',
            recentlyDeleted |-> recentlyDeleted', lastAction |-> lastAction']

SpawnedWhenDue(h, h2, date) ==
    /\ h2.activeBugState = "locked"
    /\ isDue(date, h.nextDueDateISO)
    /\ h.lastSpawnDateISO # date
    /\ h2.lastSpawnDateISO = date

BugStateStep(h, h2, date) ==
    \/ h2.activeBugState = h.activeBugState
    \/ h.activeBugState = "null" /\ SpawnedWhenDue(h, h2, date)
    \/ /\ h.activeBugState = "locked" /\ h2.activeBugState = "unlocked"
       /\ h.remainingToday = 1 /\ h2.remainingToday = 0
    \/ /\ h.activeBugState = "unlocked" /\ h2.activeBugState = "null"
       /\ parseDateOnly(h2.nextDueDateISO) > parseDateOnly(h.nextDueDateISO)

\* the claim as stated
C18_BugStateTransitions ==
    [][\/ DocNext = undoLastAction(Doc)
       \/ \A id \in Ids :
             (HasId(recurrent, id) /\ HasId(recurrent', id)) =>
                 BugStateStep(Habit(id), FindById(recurrent', id), clock.date)]_vars

\* as amended: a spawn also takes a completed, not yet smashed habit from
\* unlocked back to locked on a later day on which it is still due
C18_BugStateTransitionsWithRespawn ==
    [][\/ DocNext = undoLastAction(Doc)
       \/ \A id \in Ids :
             (HasId(recurrent, id) /\ HasId(recurrent', id)) =>
                 \/ BugStateStep(Habit(id), FindById(recurrent', id), clock.date)
                 \/ /\ Habit(id).activeBugState = "unlocked"
                    /\ SpawnedWhenDue(Habit(id), FindById(recurrent', id), clock.date)]_vars

\* a habit completed and left unsmashed yesterday, which today's spawn locks
\* again
C18_Witness ==
    \E id \in HabitIds :
        /\ Habit(id).activeBugState = "unlocked"
        /\ Habit(id).lastSpawnDateISO # Null
        /\ Habit(id).lastSpawnDateISO # clock.date
        /\ HabitIn(spawnDueRecurrentBugs(Doc, clock), id).activeBugState = "locked"

\* C22: spawnDueRecurrentBugs(today) changes exactly the habits with
\* nextDueDate <= today and lastSpawnDate # today, setting remainingToday =
\* timesPerDay, lastSpawnDate = today and activeBugState = locked; every other
\* habit, and todos, coins, infestation, monthlyStats and both undo slots, are
\* left unchanged.
DateLE(a, b) ==
    \/ a[1] < b[1]
    \/ a[1] = b[1] /\ a[2] < b[2]
    \/ a[1] = b[1] /\ a[2] = b[2] /\ a[3] <= b[3]

SpawnedFrom(h, h2, date) ==
    /\ h2 # h
    /\ h2.remainingToday = h.timesPerDay
    /\ h2.lastSpawnDateISO = date
    /\ h2.activeBugState = "locked"
    /\ h2 = [h EXCEPT !.remainingToday = h2.remainingToday,
                      !.lastSpawnDateISO = h2.lastSpawnDateISO,
                      !.activeBugState = h2.activeBugState,
                      !.lastOutcome = h2.lastOutcome]

C22_SpawnFrame ==
    \A date \in {clock.date, DayAfter(clock.date)} :
    \A s1 \in {spawnDueRecurrentBugs(Doc, At(date, 0))} :
        /\ s1 = [Doc EXCEPT !.recurrent = s1.recurrent]
        /\ Len(s1.recurrent) = Len(recurrent)
        /\ \A i \in 1..Len(recurrent) :
              IF DateLE(recurrent[i].nextDueDateISO, date)
                 /\ recurrent[i].lastSpawnDateISO # date
              THEN SpawnedFrom(recurrent[i], s1.recurrent[i], date)
              ELSE s1.recurrent[i] = recurrent[i]

\* two habits, one spawned today already and one not: a spawn changes the
\* second and leaves the first, in progress, alone
C22_Witness ==
    \E i \in 1..Len(recurrent), j \in 1..Len(recurrent) :
        /\ recurrent[i].lastSpawnDateISO = clock.date
        /\ recurrent[i].activeBugState \in {"locked", "unlocked"}
        /\ recurrent[j].lastSpawnDateISO = Null
        /\ spawnDueRecurrentBugs(Doc, clock).recurrent[i] = recurrent[i]
        /\ spawnDueRecurrentBugs(Doc, clock).recurrent[j].activeBugState = "locked"

\* C23: completeRecurrent(id) decrements remainingToday by exactly 1 when it is
\* > 0 and sets activeBugState to unlocked exactly when the result is 0; when
\* remainingToday is already 0 it changes nothing; so after a spawn a habit
\* becomes unlocked after exactly remainingToday completions and not before.
RECURSIVE Completions(_, _, _)
Completions(s, id, n) ==
    IF n = 0 THEN s ELSE Completions(completeRecurrent(s, id), id, n - 1)

C23_CompleteCountsDown ==
    \A i \in 1..Len(recurrent) :
    \A h \in {recurrent[i]} :
        /\ \A s1 \in {completeRecurrent(Doc, h.id)} :
              /\ s1 = [Doc EXCEPT !.recurrent = s1.recurrent]
              /\ \A j \in 1..Len(recurrent) : j # i => s1.recurrent[j] = recurrent[j]
              /\ IF h.remainingToday > 0
                 THEN /\ s1.recurrent[i].remainingToday = h.remainingToday - 1
                      /\ s1.recurrent[i].activeBugState =
                             (IF h.remainingToday = 1 THEN "unlocked"
                              ELSE h.activeBugState)
                 ELSE s1 = Doc
        /\ (h.activeBugState = "locked" /\ h.remainingToday > 0) =>
              \A n \in 0..(h.remainingToday + 1) :
                  (HabitIn(Completions(Doc, h.id, n), h.id).activeBugState = "unlocked")
                      <=> n >= h.remainingToday

\* a habit with two completions to go, one of them made
C23_Witness ==
    \E id \in HabitIds :
        /\ Habit(id).timesPerDay = 2
        /\ Habit(id).remainingToday = 1
        /\ Habit(id).activeBugState = "locked"
        /\ Habit(id).lastOutcome = "plus"
        /\ HabitIn(completeRecurrent(Doc, id), id).activeBugState = "unlocked"

\* C24: failTodo(id) on an existing task sets infestation to
\* min(10, infestation + FAIL_WEIGHTS[difficulty]) with weights easy 1,
\* medium 1, hard 2, boss 3, increments the current month's missedCount by
\* exactly 1, and leaves the task's status and the coin total unchanged.
WeightOf(d) ==
    IF d = "easy" THEN 1 ELSE IF d = "medium" THEN 1
    ELSE IF d = "hard" THEN 2 ELSE 3

MissedCount(s, k) == ensureMonthlyStats(s.monthlyStats, k).missedCount

C24_FailTodoPenalty ==
    \A id \in TodoIds :
    \A d \in Difficulties :
    \A s0 \in {updateTodo(Doc, id, [title |-> Todo(id).title, difficulty |-> d])} :
    \A s1 \in {failTodo(s0, id, clock)} :
    \A k \in {getMonthKey(clock)} :
        /\ s1.infestation = (IF infestation + WeightOf(d) > 10 THEN 10
                             ELSE infestation + WeightOf(d))
        /\ MissedCount(s1, k) = MissedCount(s0, k) + 1
        /\ FindById(s1.todos, id).status = Todo(id).status
        /\ s1.coins = coins

\* a failed task: infestation raised by the weight of its difficulty, one miss
\* counted, and a further fail that the cap cuts short
C24_Witness ==
    \E id \in TodoIds :
        /\ Todo(id).lastOutcome = "minus"
        /\ infestation = 9
        /\ MissedCount(Doc, getMonthKey(clock)) = 3
        /\ failTodo(Doc, id, clock).infestation = 10

\* C25: failRecurrent(id) on an existing habit raises infestation by
\* FAIL_WEIGHTS[difficulty], clamped at 10, and increments the current month's
\* missedCount by 1.
C25_FailRecurrentPenalty ==
    \A id \in HabitIds :
    \A s1 \in {failRecurrent(Doc, id, clock)} :
        /\ s1.infestation = Min(10, infestation + WeightOf(Habit(id).difficulty))
        /\ MissedCount(s1, getMonthKey(clock)) = MissedCount(Doc, getMonthKey(clock)) + 1

\* C26: each undoable action - unlock, fail and complete (completeRecurrent) -
\* first stores the pre-action entity with the pre-action coins, infestation
\* and monthlyStats in the single undo slot, replacing any earlier entry, so
\* that an immediately following undoLastAction reverts it.
C26_CompleteIsUndoable ==
    \A id \in HabitIds :
        Habit(id).remainingToday > 0 =>
            \A s1 \in {completeRecurrent(Doc, id)} :
                /\ s1.lastAction # Null
                /\ s1.lastAction[1].itemId = id
                /\ s1.lastAction[1].prevRecurrent = Habit(id)
                /\ undoLastAction(s1).recurrent = recurrent

\* C29: the recently-deleted buffer holds at most one entity: a delete removes
\* the entity from its live collection and stores it in the buffer, and
\* deleting a second entity while the buffer is occupied replaces the first,
\* after which only the most recently deleted entity can be restored.
Live(s, id) == HasId(s.todos, id) \/ HasId(s.recurrent, id)

deleteEntity(s, id) ==
    IF HasId(s.todos, id) THEN deleteTodo(s, id, clock)
    ELSE deleteRecurrent(s, id, clock)

C29_SingleSlotBuffer ==
    /\ Len(recentlyDeleted) <= 1
    /\ \A a \in Ids :
          Live(Doc, a) =>
              \A s1 \in {deleteEntity(Doc, a)} :
                  /\ ~Live(s1, a)
                  /\ Len(s1.recentlyDeleted) = 1
                  /\ s1.recentlyDeleted[1].item.id = a
                  /\ \A b \in Ids \ {a} :
                        Live(Doc, b) =>
                            \A s2 \in {deleteEntity(s1, b)} :
                            \A s3 \in {undoRecentlyDeleted(s2)} :
                                /\ ~Live(s2, a) /\ ~Live(s2, b)
                                /\ Len(s2.recentlyDeleted) = 1
                                /\ s2.recentlyDeleted[1].item.id = b
                                /\ Live(s3, b) /\ ~Live(s3, a)
                                /\ s3.recentlyDeleted = Null
                                /\ undoRecentlyDeleted(s3) = s3

\* a task deleted after another entity had been deleted: only the task
\* comes back
C29_Witness ==
    /\ recentlyDeleted # Null
    /\ recentlyDeleted[1].type = "todo"
    /\ \E a \in Ids :
          /\ a # recentlyDeleted[1].item.id
          /\ a < nextId
          /\ ~Live(Doc, a)
          /\ ~Live(undoRecentlyDeleted(Doc), a)
    /\ Live(undoRecentlyDeleted(Doc), recentlyDeleted[1].item.id)

\* C30: mutations are atomic over the whole document: two operations
\* triggered in the same tick (smashTodo on two different tasks, or a smash
\* and a fail) both take effect, with no lost update to coins, infestation or
\* monthlyStats.
SmashedCount(s, k) == ensureMonthlyStats(s.monthlyStats, k).smashedCount

BothEffects(s, a, b) ==
    \A k \in {getMonthKey(clock)} :
        /\ s.coins = coins + COIN_REWARDS(Todo(a).difficulty)
                           + COIN_REWARDS(Todo(b).difficulty)
        /\ SmashedCount(s, k) = SmashedCount(Doc, k) + 2
        /\ Len(ensureMonthlyStats(s.monthlyStats, k).smashedItems)
               = Len(ensureMonthlyStats(monthlyStats, k).smashedItems) + 2
        /\ FindById(s.todos, a).status = "smashed"
        /\ FindById(s.todos, b).status = "smashed"
        /\ s.infestation = infestation

SmashAndFail(s, a, b) ==
    \A k \in {getMonthKey(clock)} :
        /\ s.coins = coins + COIN_REWARDS(Todo(a).difficulty)
        /\ s.infestation = Min(10, infestation + FAIL_WEIGHTS(Todo(b).difficulty))
        /\ MissedCount(s, k) = MissedCount(Doc, k) + 1
        /\ Len(ensureMonthlyStats(s.monthlyStats, k).missedItems)
               = Len(ensureMonthlyStats(monthlyStats, k).missedItems) + 1
        /\ FindById(s.todos, a).status = "smashed"
        /\ FindById(s.todos, b).lastOutcome = "minus"

C30_NoLostUpdate ==
    \A a \in TodoIds, b \in TodoIds :
        a # b =>
            /\ BothEffects(smashTodo(smashTodo(Doc, a, clock), b, clock), a, b)
            /\ SmashAndFail(failTodo(smashTodo(Doc, a, clock), b, clock), a, b)
            /\ SmashAndFail(smashTodo(failTodo(Doc, b, clock), a, clock), a, b)

\* two unlocked tasks with coins, infestation and statistics already there
C30_Witness ==
    \E a \in TodoIds, b \in TodoIds :
        /\ a # b
        /\ Todo(a).status = "unlocked" /\ Todo(b).status = "unlocked"
        /\ BothEffects(smashTodo(smashTodo(Doc, a, clock), b, clock), a, b)

\* C21: smashRecurrent on a habit whose activeBugState is unlocked adds
\* COIN_REWARDS[difficulty] to coins, sets remainingToday to 0 and
\* activeBugState to null, increments the month's smashedCount by 1, and
\* advances nextDueDate from its previous value by 1 day for daily and 7 days
\* for weekly habits, with correct month and year rollover.
PlusDays(dateOnly, n) ==
    LET y == dateOnly[1]
        m == dateOnly[2]
        d == dateOnly[3] + n
        last == DaysInMonth(y, m)
    IN  IF d <= last THEN <<y, m, d>>
        ELSE IF m = 12 THEN <<y + 1, 1, d - last>>
        ELSE <<y, m + 1, d - last>>

C21_SmashRecurrentEffects ==
    \A i \in 1..Len(recurrent) :
    \A h \in {recurrent[i]} :
        h.activeBugState = "unlocked" =>
            \A s1 \in {smashRecurrent(Doc, h.id, clock)} :
            \A h2 \in {s1.recurrent[i]} :
            \A k \in {getMonthKey(clock)} :
                /\ s1.coins = coins + COIN_REWARDS(h.difficulty)
                /\ h2.remainingToday = 0
                /\ h2.activeBugState = "null"
                /\ SmashedCount(s1, k) = SmashedCount(Doc, k) + 1
                /\ h.intervalType = "daily" =>
                       h2.nextDueDateISO = PlusDays(h.nextDueDateISO, 1)
                /\ h.intervalType = "weekly" =>
                       h2.nextDueDateISO = PlusDays(h.nextDueDateISO, 7)

\* a weekly habit created on 26 December, smashed: due again on 2 January
C21_Witness ==
    \E id \in HabitIds :
        /\ Habit(id).intervalType = "weekly"
        /\ Habit(id).activeBugState = "null"
        /\ Habit(id).lastSpawnDateISO = <<2024, 12, 26>>
        /\ Habit(id).nextDueDateISO = <<2025, 1, 2>>
        /\ coins = COIN_REWARDS(Habit(id).difficulty)
        /\ SmashedCount(Doc, <<2024, 12>>) = 1

\* C27: undoLastAction never applies a snapshot that is missing or older than
\* 10 seconds: with an empty undo slot, or with a snapshot whose timestamp is
\* more than 10 s in the past, the undo request leaves todos, habits, coins,
\* infestation and monthlyStats unchanged.  The request is the undo button of
\* the task screen, on the screen as it rendered after the last write to the
\* slot, or the store operation itself.
SameData(s, s2) ==
    /\ s2.todos = s.todos
    /\ s2.recurrent = s.recurrent
    /\ s2.coins = s.coins
    /\ s2.infestation = s.infestation
    /\ s2.monthlyStats = s.monthlyStats

C27_UndoNeverAppliesExpired ==
    /\ lastAction = Null => SameData(Doc, undoLastAction(Doc))
    /\ \A id \in TodoIds :
       \A s1 \in {failTodo(Doc, id, clock)} :
       \A nowISO \in {At(DayAfter(clock.date), 0)} :
           elapsedMs(nowISO, s1.lastAction[1].actionAtISO) > UNDO_WINDOW_MS =>
               /\ SameData(s1, undoHandler(s1, id, clock))
               /\ SameData(s1, undoLastAction(s1))

\* C28: the expiry timer of a slot is cancelled and rescheduled whenever the
\* slot is overwritten: an entry written to recentlyDeleted or lastAction at
\* time t is never cleared by a timer before t + 10 s, even if the slot held
\* an older entry whose timer was still pending.  Whenever the timeout of a
\* slot may fire, the entry in the slot is at least 10 s old; and an occupied
\* slot has its timeout pending.
C28_TimerNeverClearsEarly ==
    /\ recentlyDeleted # Null =>
           /\ timers.recentlyDeleted # Null
           /\ timerDue(timers.recentlyDeleted, clock) =>
                  elapsedMs(clock, recentlyDeleted[1].deletedAtISO) >= UNDO_WINDOW_MS
    /\ lastAction # Null =>
           /\ timers.lastAction # Null
           /\ timerDue(timers.lastAction, clock) =>
                  elapsedMs(clock, lastAction[1].actionAtISO) >= UNDO_WINDOW_MS

\* a fail recorded half a window after an earlier one, whose timeout was still
\* pending: the moment the older timeout was due has come, the slot is still
\* occupied and its timeout is due half a window later
C28_Witness ==
    /\ lastAction # Null
    /\ lastAction[1].actionAtISO.ms = TICK_MS
    /\ lastAction[1].prevMonthlyStats # <<>>
    /\ clock.ms = 2 * TICK_MS
    /\ timers.lastAction = <<PlusMs(clock, TICK_MS)>>

\* C31: addTodo with a non-empty title creates exactly min(10, max(1, count))
\* tasks, all locked and with distinct ids, titled 'title (i/N)' when N > 1,
\* placed at the head of the collection in front of the existing tasks, whose
\* order is preserved; coins, infestation, monthlyStats and habits are
\* unchanged.
CountCases == {0, 1, 2, 10, 11}

\* a title as typed, and the same title trimmed
TitleCases == {<< <<"a">>, <<"a">> >>, << <<" ", "a", " ", "b", " ">>, <<"a", " ", "b">> >>}

Clamped(count) == IF count < 1 THEN 1 ELSE IF count > 10 THEN 10 ELSE count

\* the ids generateId returns next
FreshIds == [i \in 1..(MAX_COUNT + 2) |-> nextId + i - 1]

NoDuplicateIds(items) ==
    \A i, j \in 1..Len(items) : items[i].id = items[j].id => i = j

C31_AddTodoCreatesBatch ==
    \A tc \in TitleCases, difficulty \in Difficulties, count \in CountCases :
    \A n \in {Clamped(count)} :
    \A s1 \in {addTodo(Doc, tc[1], difficulty, count, FreshIds, clock)} :
        /\ Len(s1.todos) = Len(todos) + n
        /\ \A i \in 1..n :
              /\ s1.todos[i].status = "locked"
              /\ s1.todos[i].id = FreshIds[i]
              /\ s1.todos[i].difficulty = difficulty
              /\ s1.todos[i].title =
                     (IF n > 1
                      THEN tc[2] \o <<" ", "(", ToString(i), "/", ToString(n), ")">>
                      ELSE tc[2])
        /\ SubSeq(s1.todos, n + 1, Len(s1.todos)) = todos
        /\ NoDuplicateIds(s1.todos)
        /\ s1.coins = coins
        /\ s1.infestation = infestation
        /\ s1.monthlyStats = monthlyStats
        /\ s1.recurrent = recurrent

\* a batch of two added in front of a task that had been unlocked before
C31_Witness ==
    /\ Len(todos) = 1
    /\ todos[1].status = "unlocked"
    /\ \A s1 \in {addTodo(Doc, <<"a">>, "hard", 2, FreshIds, clock)} :
          /\ Len(s1.todos) = 3
          /\ s1.todos[1].title = <<"a", " ", "(", "1", "/", "2", ")">>
          /\ s1.todos[2].title = <<"a", " ", "(", "2", "/", "2", ")">>
          /\ s1.todos[3] = todos[1]

\* C32: at rehydration a legacy monthlyProgress map {month: count} is
\* converted to monthlyStats with smashedCount = count, missedCount = 0 and
\* empty item lists for every month key, and both the recently-deleted buffer
\* and the undo slot are empty afterwards.
C32_LegacyMigration ==
    \A s1 \in {onRehydrateStorage(Doc, monthlyProgress)} :
        /\ s1.recentlyDeleted = Null
        /\ s1.lastAction = Null
        /\ DOMAIN monthlyProgress # {} =>
              /\ DOMAIN s1.monthlyStats = DOMAIN monthlyProgress
              /\ \A key \in DOMAIN monthlyProgress :
                    /\ s1.monthlyStats[key].smashedCount = monthlyProgress[key]
                    /\ s1.monthlyStats[key].missedCount = 0
                    /\ s1.monthlyStats[key].smashedItems = <<>>
                    /\ s1.monthlyStats[key].missedItems = <<>>

\* a legacy document of two months, restarted after its task had been
\* deleted: the buffer was occupied and is empty, the counts are the legacy ones
C32_Witness ==
    /\ DOMAIN monthlyProgress = {<<2023, 12>>, <<2024, 1>>}
    /\ DOMAIN monthlyStats = DOMAIN monthlyProgress
    /\ monthlyStats[<<2023, 12>>].smashedCount = 3
    /\ todos = <<>>
    /\ steps = 3
    /\ recentlyDeleted = Null
    /\ lastAction = Null
    /\ clock = [date |-> StartDate, ms |-> 0]

\* C38: the legacy migration is applied once: after a legacy document has
\* been migrated and further smashes or fails have been recorded in
\* monthlyStats and persisted, the next rehydration keeps those monthlyStats
\* and does not overwrite them with the legacy counts.
C38_MigrationAppliedOnce ==
    (\E key \in DOMAIN monthlyStats :
        monthlyStats[key].smashedItems # <<>> \/ monthlyStats[key].missedItems # <<>>)
        => onRehydrateStorage(Doc, monthlyProgress).monthlyStats = monthlyStats

\* C33: undo reverts only the undone action: coins credited by smashing an
\* entity after the snapshot was taken (unlock task A, smash task B, undo A)
\* are still present after undoLastAction, so the coin total always equals
\* the rewards of smashes that have not been undone.
C33_UndoKeepsLaterRewards ==
    lastAction # Null =>
        \A b \in TodoIds \ {lastAction[1].itemId} :
            Todo(b).status = "unlocked" =>
                \A s1 \in {smashTodo(Doc, b, clock)} :
                \A s2 \in {undoLastAction(s1)} :
                    /\ FindById(s2.todos, b).status = "smashed"
                    /\ s2.coins = coins + COIN_REWARDS(Todo(b).difficulty)

\* C34: a one-off task credits its coin reward at most once: for every
\* sequence of operations without undo, including two smash requests issued
\* for the same unlocked task before the view re-renders, the coins credited
\* for that task total at most COIN_REWARDS[difficulty] and its smashed entry
\* is recorded at most once.
EntriesOf(items, id) == Cardinality({i \in 1..Len(items) : items[i].id = id})

C34_RewardAtMostOnce ==
    \A id \in TodoIds :
        Todo(id).status = "unlocked" =>
            \A k \in {getMonthKey(clock)} :
            \A s2 \in {smashTodo(smashTodo(Doc, id, clock), id, clock)} :
                /\ s2.coins <= coins + COIN_REWARDS(Todo(id).difficulty)
                /\ EntriesOf(ensureMonthlyStats(s2.monthlyStats, k).smashedItems, id)
                       <= EntriesOf(ensureMonthlyStats(monthlyStats, k).smashedItems, id) + 1

\* C35: a month's smashedCount is changed only by successful smashes (plus 1
\* each) and by undo restoring a snapshot; failTodo and failRecurrent leave
\* smashedCount unchanged, and smashedCount and missedCount are never
\* negative.
C35_FailKeepsSmashedCount ==
    /\ \A key \in DOMAIN monthlyStats :
          monthlyStats[key].smashedCount >= 0 /\ monthlyStats[key].missedCount >= 0
    /\ \A k \in {getMonthKey(clock)} :
          /\ \A id \in TodoIds :
                SmashedCount(failTodo(Doc, id, clock), k) = SmashedCount(Doc, k)
          /\ \A id \in HabitIds :
                SmashedCount(failRecurrent(Doc, id, clock), k) = SmashedCount(Doc, k)

\* C36: in every reachable state each habit satisfies
\* 0 <= remainingToday <= timesPerDay, for every sequence of spawn, complete,
\* smash, fail, updateRecurrent (including lowering timesPerDay), delete and
\* undo operations; the habits kept in the two undo slots satisfy it too.
RemainingInRange(h) == 0 <= h.remainingToday /\ h.remainingToday <= h.timesPerDay

C36_RemainingInRange ==
    /\ \A i \in 1..Len(recurrent) : RemainingInRange(recurrent[i])
    /\ (recentlyDeleted # Null /\ recentlyDeleted[1].type = "recurrent") =>
           RemainingInRange(recentlyDeleted[1].item)
    /\ (lastAction # Null /\ lastAction[1].type = "recurrent") =>
           RemainingInRange(lastAction[1].prevRecurrent)

\* a habit spawned with two occurrences, failed, then edited down to one a day
C36_Witness ==
    \E id \in HabitIds :
        /\ Habit(id).timesPerDay = 1
        /\ Habit(id).remainingToday = 1
        /\ lastAction # Null
        /\ lastAction[1].itemId = id
        /\ lastAction[1].prevRecurrent.timesPerDay = 2
        /\ lastAction[1].prevRecurrent.remainingToday = 2

\* C37: for habits created and updated with timesPerDay >= 1, every reachable
\* state satisfies: activeBugState = unlocked implies remainingToday = 0,
\* locked implies remainingToday >= 1, and null implies remainingToday = 0;
\* hence a locked habit can always still be completed and is never stuck.
C37_BugStateMatchesRemaining ==
    \A id \in HabitIds :
    \A h \in {Habit(id)} :
        /\ h.activeBugState = "unlocked" => h.remainingToday = 0
        /\ h.activeBugState = "null" => h.remainingToday = 0
        /\ h.activeBugState = "locked" =>
              /\ h.remainingToday >= 1
              /\ HabitIn(completeRecurrent(Doc, id), id).remainingToday
                     = h.remainingToday - 1

\* a habit of two occurrences a day, both logged today: unlocked, none left
C37_Witness ==
    \E id \in HabitIds :
        /\ Habit(id).activeBugState = "unlocked"
        /\ Habit(id).timesPerDay = 2
        /\ Habit(id).remainingToday = 0
        /\ Habit(id).lastSpawnDateISO = clock.date

\* C39: undoLastAction never adds or removes entities: the todo and habit
\* collections keep the same ids in the same order, and when the snapshotted
\* entity has been deleted in the meantime the undo does not re-insert it (it
\* only restores coins, infestation and monthlyStats), so no entity is ever
\* both live and in the recently-deleted buffer and no id occurs twice.
IdsOf(items) == [i \in 1..Len(items) |-> items[i].id]

C39_UndoKeepsEntities ==
    /\ NoDuplicateIds(todos \o recurrent)
    /\ recentlyDeleted # Null => ~Live(Doc, recentlyDeleted[1].item.id)
    /\ \A s1 \in {undoLastAction(Doc)} :
          /\ IdsOf(s1.todos) = IdsOf(todos)
          /\ IdsOf(s1.recurrent) = IdsOf(recurrent)
          /\ s1.recentlyDeleted = recentlyDeleted
          /\ (lastAction # Null /\ ~Live(Doc, lastAction[1].itemId)) =>
                /\ s1.todos = todos
                /\ s1.recurrent = recurrent
                /\ s1.coins = lastAction[1].prevCoins
                /\ s1.infestation = lastAction[1].prevInfestation
                /\ s1.monthlyStats = lastAction[1].prevMonthlyStats

\* a failed task was deleted and the fail then undone: the task is still in
\* the buffer only, the penalty and the miss are taken back
C39_Witness ==
    /\ recentlyDeleted # Null
    /\ recentlyDeleted[1].type = "todo"
    /\ recentlyDeleted[1].item.lastOutcome = "minus"
    /\ ~Live(Doc, recentlyDeleted[1].item.id)
    /\ lastAction = Null
    /\ infestation = 0
    /\ monthlyStats = <<>>
    /\ clock = [date |-> StartDate, ms |-> 0]

====
